---- MODULE Spec2Model ----
(***************************************************************************)
(* dj-stripe event ingestion: the webhook view (djstripe/views.py) and the *)
(* djstripe_process_events management command.                            *)
(*                                                                         *)
(* WebhookSpec serves inbound POSTs, BatchSpec runs the management command *)
(* once, ReplaySpec lets deliveries and repeated runs meet in one store.   *)
(***************************************************************************)
EXTENDS Integers, Sequences, FiniteSets, TLC

\* ------------------------------------------------------------------ bounds
\* Inbound POSTs served in one behaviour.
MaxPosts == 2
\* Connected accounts that exist (in the local store or on the command line).
MaxAccounts == 2
\* Length of an explicit --ids list.
MaxIds == 2

\* Runs of the command after the first, where a behaviour repeats it.
MaxRuns == 1

\* ------------------------------------------------------------- vocabulary
\* Python's None where a scalar (an account id, a dict key) is expected.
None == "None"

\* An optional command-line value: absent (None) or given.
NoneOpt == [none |-> TRUE, val |-> <<>>]
Opt(v) == [none |-> FALSE, val |-> v]
\* Python truthiness of an optional list / string: None and empty are falsy.
Truthy(o) == ~o.none /\ o.val # <<>>

EndpointTypes == {"ACCOUNT", "CONNECT"}

\* The event id that marks a provider test event, and an ordinary one.
TestEventId == "evt_00000000000000"
WebhookBodies == {TestEventId, "evt_1"}

\* Response bodies are sequences of text pieces (str() yields digits).
TestAck == <<"Test webhook successfully received!">>

Digits == <<"0", "1", "2", "3", "4", "5", "6", "7", "8", "9">>

\* str(int) for a non-negative primary key: its decimal digits.
RECURSIVE str(_)
str(n) == IF n < 10 THEN <<Digits[n + 1]>>
          ELSE Append(str(n \div 10), Digits[(n % 10) + 1])

VARIABLES
  \* webhook path
  triggers,      \* WebhookEventTrigger rows, in creation order
  next_id,       \* the next primary key of WebhookEventTrigger
  before,        \* the rows as they were when the last POST arrived
  request,       \* the last POST served
  response,      \* the response to it
  posts,         \* POSTs served so far
  signed_posts,  \* of these, the ones that carried the signature header
  \* local store shared by both paths
  store,         \* rows of the local store, counted per event id
  synced,        \* per event id, the Event.process calls that succeeded
  runs,          \* earlier runs of the command in this behaviour
  \* batch command
  accounts,      \* models.Account.objects.all(): ids, in listing order
  options,       \* the parsed command line of the running command
  pc,            \* position of the command
  result,        \* how the command ended
  listed_events, \* the value handle() passes to process_events()
  acct_idx,      \* position of the outer loop in listed_events.items()
  ev_idx,        \* position of the inner loop in the current event list
  count,
  total,
  output,        \* lines written through output()/verbose_output()
  api_calls,     \* remote requests issued (list, retrieve)
  dispatched     \* Event.process calls made: <<stripe_account, event id, raised>>

webhookVars == <<triggers, next_id, before, request, response, posts, signed_posts>>
batchVars == <<accounts, options, pc, result, listed_events, acct_idx, ev_idx,
               count, total, output, api_calls, dispatched>>
vars == <<webhookVars, store, synced, runs, batchVars>>

\* ===================================================================
\* Local store
\* ===================================================================

\* Every event id either path can meet.
AllEventIds == {TestEventId, "evt_1", "evt_2", "evt_3", "evt_4", "evt_5",
                "evt_6", "evt_7"}

\* The local store: how many rows it holds for each event id.
EmptyStore == [id \in AllEventIds |-> 0]

Event_process_InsertOnly(st, id) == [st EXCEPT ![id] = @ + 1]

\* models.Event.process on success: an upsert keyed by the event id. An event
\* already in the store is returned as it is; a new one is inserted.
Event_process(st, id) == IF st[id] > 0 THEN st ELSE [st EXCEPT ![id] = 1]

\* ===================================================================
\* Webhook path
\* ===================================================================

Requests == [hasSig : BOOLEAN,      \* HTTP_STRIPE_SIGNATURE in request.META
             sigOK : BOOLEAN,       \* what signature verification answers
             body : WebhookBodies,  \* the event id in the JSON body
             raises : BOOLEAN,      \* whether processing the event raises
             endpoint_type : EndpointTypes]

NoRequest == [hasSig |-> FALSE, sigOK |-> FALSE, body |-> "evt_1",
              raises |-> FALSE, endpoint_type |-> "ACCOUNT"]

HttpResponse(content) == [status |-> 200, body |-> content]
HttpResponseBadRequest == [status |-> 400, body |-> <<>>]
\* What the framework answers when the view raises.
HttpResponseServerError == [status |-> 500, body |-> <<>>]
NoResponse == [status |-> 0, body |-> <<>>]

\* WebhookEventTrigger.is_test_event: the body carries the test-event marker.
is_test_event(body) == body = TestEventId

\* WebhookEventTrigger.from_request: always creates one row; verification
\* sets valid; a valid event that is not a test event is processed, and an
\* exception raised by processing is recorded on the row and re-raised.
\* For a test event verification is bypassed and the flag is whatever the
\* bypass leaves: drawn from the request.
from_request(req, id) ==
  LET test == is_test_event(req.body)
      valid == req.sigOK
      processed == valid /\ ~test
      raised == processed /\ req.raises
  IN [trigger |-> [id |-> id, body |-> req.body,
                   endpoint_type |-> req.endpoint_type,
                   valid |-> valid, is_test_event |-> test,
                   exception |-> raised],
      processed |-> processed /\ ~raised,
      raised |-> raised]

HasSignature_Always(req) == TRUE

HasSignature_OrTest(req) == req.hasSig \/ is_test_event(req.body)

HasSignature_Inverted(req) == ~req.hasSig

\* views.py:31
HasSignature(req) == req.hasSig

ResponseFor_ValidFirst(trigger) ==
  IF ~trigger.valid THEN HttpResponseBadRequest
  ELSE IF trigger.is_test_event THEN HttpResponse(TestAck)
  ELSE HttpResponse(str(trigger.id))

ResponseFor_NoValidCheck(trigger) ==
  IF trigger.is_test_event THEN HttpResponse(TestAck)
  ELSE HttpResponse(str(trigger.id))

ResponseFor_StaleId(trigger) ==
  IF trigger.is_test_event THEN HttpResponse(TestAck)
  ELSE IF ~trigger.valid THEN HttpResponseBadRequest
  ELSE HttpResponse(str(trigger.id - 1))

\* views.py:38-46
ResponseFor(trigger) ==
  IF trigger.is_test_event THEN HttpResponse(TestAck)
  ELSE IF ~trigger.valid THEN HttpResponseBadRequest
  ELSE HttpResponse(str(trigger.id))

\* ProcessWebhookView.post
post(req) ==
  /\ posts < MaxPosts
  /\ posts' = posts + 1
  /\ request' = req
  /\ before' = triggers
  /\ IF ~HasSignature(req)
     THEN /\ response' = HttpResponseBadRequest
          /\ UNCHANGED <<triggers, next_id, signed_posts, store, synced>>
     ELSE LET r == from_request(req, next_id) IN
          /\ triggers' = Append(triggers, r.trigger)
          /\ next_id' = next_id + 1
          /\ signed_posts' = signed_posts + (IF req.hasSig THEN 1 ELSE 0)
          /\ store' = IF r.processed THEN Event_process(store, req.body) ELSE store
          /\ synced' = IF r.processed THEN [synced EXCEPT ![req.body] = @ + 1]
                       ELSE synced
          /\ response' = IF r.raised THEN HttpResponseServerError
                         ELSE ResponseFor(r.trigger)
  /\ UNCHANGED <<batchVars, runs>>

WebhookNext == \E req \in Requests : post(req)

\* ===================================================================
\* Shared helpers
\* ===================================================================

AccountPool == <<"acct_A", "acct_B", "acct_C", "acct_D">>
AccountIds == {AccountPool[i] : i \in 1..MaxAccounts}

RECURSIVE SeqsUpTo(_, _)
SeqsUpTo(S, n) == IF n = 0 THEN {<<>>}
                  ELSE LET shorter == SeqsUpTo(S, n - 1)
                       IN shorter \cup {Append(s, x) : s \in shorter, x \in S}

NoDup(s) == \A i, j \in 1..Len(s) : i # j => s[i] # s[j]

\* ===================================================================
\* Batch command: djstripe_process_events
\* ===================================================================

\* The provider's event log, per account scope (None = the platform's own
\* account). An event type is its dot-separated segments.
Event(id, type, delivered) == [id |-> id, type |-> type, delivery_success |-> delivered]

RemoteEvents(scope) ==
  CASE scope = None -> <<Event("evt_1", <<"invoice", "paid">>, TRUE),
                         Event("evt_2", <<"customer", "created">>, FALSE),
                         Event("evt_3", <<"invoice", "created">>, FALSE)>>
    [] scope = "acct_A" -> <<Event("evt_4", <<"invoice", "paid">>, FALSE),
                             Event("evt_5", <<"customer", "updated">>, TRUE)>>
    [] scope = "acct_B" -> <<>>
    [] scope = "acct_C" -> <<Event("evt_6", <<"customer", "created">>, TRUE)>>
    [] OTHER -> <<Event("evt_7", <<"invoice", "created">>, FALSE)>>

EventIds == {"evt_1", "evt_2"}
TypePatterns == {<<>>, <<"invoice", "*">>}

\* The provider's type filter: equal segments, "*" matching any one segment.
TypeMatches(type, pattern) ==
  /\ Len(type) = Len(pattern)
  /\ \A i \in 1..Len(type) : pattern[i] = "*" \/ pattern[i] = type[i]

\* list_kwargs: which filters a listing request carries.
NoKwargs == [has_delivery_success |-> FALSE, delivery_success |-> FALSE,
             has_type |-> FALSE, type |-> <<>>]

\* models.Event.api_list(**kwargs): the events of one scope that pass the
\* filters of the request, in listing order.
api_list(stripe_account, kwargs) ==
  LET Keep(e) ==
        /\ kwargs.has_delivery_success => e.delivery_success = kwargs.delivery_success
        /\ kwargs.has_type => TypeMatches(e.type, kwargs.type)
  IN SelectSeq(RemoteEvents(stripe_account), Keep)

ListCall(stripe_account, kwargs) ==
  [op |-> "list", stripe_account |-> stripe_account, kwargs |-> kwargs, id |-> None]
RetrieveCall(stripe_account, id) ==
  [op |-> "retrieve", stripe_account |-> stripe_account, kwargs |-> NoKwargs, id |-> id]

\* add_arguments: two mutually exclusive groups. An option counts as given
\* when its value is not its default (None / False).
Given(flags) == Cardinality({i \in 1..Len(flags) : flags[i]})

Options ==
  {o \in [ids : {NoneOpt} \cup {Opt(s) : s \in SeqsUpTo(EventIds, MaxIds)},
          failed : BOOLEAN,
          type : {NoneOpt} \cup {Opt(t) : t \in TypePatterns},
          account_ids : {NoneOpt} \cup {Opt(s) : s \in SeqsUpTo(AccountIds, MaxAccounts)},
          no_connect : BOOLEAN] :
     /\ Given(<<~o.ids.none, o.failed, ~o.type.none>>) <= 1
     /\ Given(<<~o.account_ids.none, o.no_connect>>) <= 1}

Line(level, msg) == [level |-> level, msg |-> msg]

\* handle, lines 79-84: account IDs from the command line, else from the DB.
ResolveAccountIds(opts, db) ==
  IF ~Truthy(opts.account_ids) /\ ~opts.no_connect
  THEN Opt(db)
  ELSE opts.account_ids

\* handle, line 86: len() of None raises TypeError.
LenRaises(account_ids) == account_ids.none

TooManyAccounts_OffByOne(account_ids, event_ids) ==
  Len(account_ids.val) > 2 /\ Truthy(event_ids)

\* handle, line 86
TooManyAccounts(account_ids, event_ids) ==
  Len(account_ids.val) > 1 /\ Truthy(event_ids)

\* handle, lines 101-110
Banner(opts) ==
  IF opts.failed THEN Line("output", <<"Processing all failed events">>)
  ELSE IF Truthy(opts.type)
       THEN Line("output", <<"Processing all events that match">> \o opts.type.val)
  ELSE IF Truthy(opts.ids)
       THEN Line("output", <<"Processing specific events">> \o opts.ids.val)
  ELSE Line("output", <<"Processing all available events">>)

\* handle, lines 122-127
ListKwargs(opts) ==
  [has_delivery_success |-> opts.failed,
   delivery_success |-> FALSE,
   has_type |-> Truthy(opts.type),
   type |-> IF Truthy(opts.type) THEN opts.type.val ELSE <<>>]

\* dict[key] = value: a present key keeps its position and takes the value.
DictSet(items, key, value) ==
  IF \E i \in 1..Len(items) : items[i].key = key
  THEN [i \in 1..Len(items) |->
          IF items[i].key = key THEN [key |-> key, events |-> value] ELSE items[i]]
  ELSE Append(items, [key |-> key, events |-> value])

RECURSIVE DictFrom(_, _, _)
DictFrom(items, account_ids, kwargs) ==
  IF account_ids = <<>> THEN items
  ELSE DictFrom(DictSet(items, Head(account_ids), api_list(Head(account_ids), kwargs)),
                Tail(account_ids), kwargs)

BuildListing_DropsDefault(account_ids, kwargs) ==
  IF account_ids # <<>>
  THEN DictFrom(<<>>, account_ids, kwargs)
  ELSE <<[key |-> None, events |-> api_list(None, kwargs)]>>

BuildListing_AccountsFirst(account_ids, kwargs) ==
  DictSet(DictFrom(<<>>, account_ids, kwargs), None, api_list(None, kwargs))

\* handle, lines 129-140: the dict of event lists, None first.
BuildListing(account_ids, kwargs) ==
  LET own == <<[key |-> None, events |-> api_list(None, kwargs)]>>
  IN IF account_ids # <<>>
     THEN DictFrom(own, account_ids, kwargs)
     ELSE own

ListCalls_TenantsUnfiltered(account_ids, kwargs) ==
  <<ListCall(None, kwargs)>> \o
  [i \in 1..Len(account_ids) |-> ListCall(account_ids[i], NoKwargs)]

\* The listing requests lines 130 and 137 issue, in order.
ListCalls(account_ids, kwargs) ==
  <<ListCall(None, kwargs)>> \o
  [i \in 1..Len(account_ids) |-> ListCall(account_ids[i], kwargs)]

Exit(how) ==
  /\ pc' = "exit"
  /\ result' = how

\* Command.handle up to the first iteration of process_events' loop.
handle(opts) ==
  /\ pc = "idle"
  /\ options' = opts
  /\ UNCHANGED <<webhookVars, store, synced, runs, accounts, acct_idx, ev_idx,
                 dispatched>>
  /\ LET event_ids == opts.ids
         account_ids == ResolveAccountIds(opts, accounts)
     IN
     IF LenRaises(account_ids)
     THEN /\ Exit("TypeError")
          /\ UNCHANGED <<listed_events, count, total, output, api_calls>>
     ELSE IF TooManyAccounts(account_ids, event_ids)
     THEN \* self._parser.error(...)
          /\ Exit("CommandError")
          /\ UNCHANGED <<listed_events, count, total, output, api_calls>>
     ELSE IF Truthy(event_ids)
     THEN \* lines 115-120: a generator, nothing retrieved yet; line 149:
          \* a generator has no items().
          /\ output' = Append(output, Banner(opts))
          /\ listed_events' = [kind |-> "generator", items |-> <<>>,
                               ids |-> event_ids.val,
                               stripe_account |-> account_ids.val]
          /\ count' = 0
          /\ total' = 0
          /\ Exit("AttributeError")
          /\ UNCHANGED api_calls
     ELSE /\ output' = Append(output, Banner(opts))
          /\ listed_events' = [kind |-> "dict",
                               items |-> BuildListing(account_ids.val, ListKwargs(opts)),
                               ids |-> <<>>,
                               stripe_account |-> <<>>]
          /\ api_calls' = api_calls \o ListCalls(account_ids.val, ListKwargs(opts))
          /\ count' = 0
          /\ total' = 0
          /\ pc' = "accounts"
          /\ UNCHANGED result

CurrentItem == listed_events.items[acct_idx]

\* process_events, lines 149-153: the outer loop takes the next account.
NextAccount ==
  /\ pc = "accounts"
  /\ acct_idx < Len(listed_events.items)
  /\ acct_idx' = acct_idx + 1
  /\ LET item == listed_events.items[acct_idx + 1] IN
       /\ output' = Append(output,
            IF item.key # None
            THEN Line("verbose", <<"Processing events for", item.key>>)
            ELSE Line("verbose", <<"Processing events for our own account.">>))
       /\ IF item.events = <<>>
          THEN pc' = "accounts" /\ ev_idx' = 0
          ELSE pc' = "events" /\ ev_idx' = 1
  /\ UNCHANGED <<webhookVars, store, synced, runs, accounts, options, result, listed_events,
                 count, total, api_calls, dispatched>>

EventAt_Reversed(events, k) == events[Len(events) - k + 1]

\* process_events, line 155: the k-th event the sequence yields.
EventAt(events, k) == events[k]

DispatchScope_Default(account_id) == None

\* process_events, line 158: stripe_account=account_id
DispatchScope(account_id) == account_id

Counters_TotalOnSuccess(cnt, tot, raises) ==
  [count |-> IF raises THEN cnt ELSE cnt + 1,
   total |-> IF raises THEN tot ELSE tot + 1]

\* process_events, lines 157-159: total before the dispatch, count after it
\* has returned.
Counters(cnt, tot, raises) ==
  [count |-> IF raises THEN cnt ELSE cnt + 1, total |-> tot + 1]

\* process_events, lines 161-166
FailureTrace(event_data) ==
  <<Line("verbose", <<"Failed processing Event", event_data.id>>),
    Line("output", <<"exception">>),
    Line("verbose", <<"traceback">>)>>

ProcessEvent_Abort(raises) ==
  /\ pc = "events"
  /\ LET event_data == EventAt(listed_events.items[acct_idx].events, ev_idx)
         account_id == listed_events.items[acct_idx].key
         c == Counters(count, total, raises)
     IN
       /\ total' = c.total
       /\ count' = c.count
       /\ dispatched' = Append(dispatched,
            <<DispatchScope(account_id), event_data.id, raises>>)
       /\ IF raises
          THEN /\ UNCHANGED <<output, store, synced, ev_idx>>
               /\ pc' = "exit"
               /\ result' = "Exception"
          ELSE /\ store' = Event_process(store, event_data.id)
               /\ synced' = [synced EXCEPT ![event_data.id] = @ + 1]
               /\ output' = Append(output,
                    Line("verbose", <<"Synced Event", event_data.id>>))
               /\ UNCHANGED result
               /\ IF ev_idx < Len(listed_events.items[acct_idx].events)
                  THEN ev_idx' = ev_idx + 1 /\ pc' = "events"
                  ELSE ev_idx' = 0 /\ pc' = "accounts"
  /\ UNCHANGED <<webhookVars, runs, accounts, options, listed_events,
                 acct_idx, api_calls>>

\* process_events, lines 155-166: one event; Event.process syncs it into the
\* local store or raises, and the loop goes on either way.
ProcessEvent(raises) ==
  /\ pc = "events"
  /\ LET event_data == EventAt(CurrentItem.events, ev_idx)
         account_id == CurrentItem.key
         c == Counters(count, total, raises)
     IN
       /\ total' = c.total
       /\ count' = c.count
       /\ dispatched' = Append(dispatched,
            <<DispatchScope(account_id), event_data.id, raises>>)
       /\ IF raises
          THEN /\ output' = output \o FailureTrace(event_data)
               /\ UNCHANGED <<store, synced>>
          ELSE /\ store' = Event_process(store, event_data.id)
               /\ synced' = [synced EXCEPT ![event_data.id] = @ + 1]
               /\ output' = Append(output,
                    Line("verbose", <<"Synced Event", event_data.id>>))
  /\ IF ev_idx < Len(CurrentItem.events)
     THEN ev_idx' = ev_idx + 1 /\ pc' = "events"
     ELSE ev_idx' = 0 /\ pc' = "accounts"
  /\ UNCHANGED <<webhookVars, runs, accounts, options, result, listed_events,
                 acct_idx, api_calls>>

\* process_events, lines 168-175
Summary ==
  /\ pc = "accounts"
  /\ acct_idx = Len(listed_events.items)
  /\ output' = Append(output,
       IF total = 0
       THEN Line("output", <<"(no results)">>)
       ELSE Line("output", <<"Processed">> \o str(count) \o <<"out of">>
                            \o str(total) \o <<"Events">>))
  /\ Exit("ok")
  /\ UNCHANGED <<webhookVars, store, synced, runs, accounts, options, listed_events,
                 acct_idx, ev_idx, count, total, api_calls, dispatched>>

BatchNext ==
  \/ \E opts \in Options : handle(opts)
  \/ NextAccount
  \/ \E raises \in BOOLEAN : ProcessEvent(raises)
  \/ Summary

\* ===================================================================
\* Initial state
\* ===================================================================

NoOptions == [ids |-> NoneOpt, failed |-> FALSE, type |-> NoneOpt,
              account_ids |-> NoneOpt, no_connect |-> FALSE]
NoListing == [kind |-> "none", items |-> <<>>, ids |-> <<>>, stripe_account |-> <<>>]

Init ==
  /\ triggers = <<>>
  /\ next_id = 1
  /\ before = <<>>
  /\ request = NoRequest
  /\ response = NoResponse
  /\ posts = 0
  /\ signed_posts = 0
  /\ store = EmptyStore
  /\ synced = EmptyStore
  /\ runs = 0
  /\ accounts \in {s \in SeqsUpTo(AccountIds, MaxAccounts) : NoDup(s)}
  /\ options = NoOptions
  /\ pc = "idle"
  /\ result = "none"
  /\ listed_events = NoListing
  /\ acct_idx = 0
  /\ ev_idx = 0
  /\ count = 0
  /\ total = 0
  /\ output = <<>>
  /\ api_calls = <<>>
  /\ dispatched = <<>>

WebhookSpec == Init /\ [][WebhookNext]_vars

BatchSpec == Init /\ [][BatchNext]_vars

\* ===================================================================
\* Replay: the same events delivered by webhook, listed by the command, and
\* listed again by a second run, against one local store.
\* ===================================================================

\* Signed deliveries of the platform account's first event.
ReplayRequests == {r \in Requests : r.hasSig /\ r.body = "evt_1"
                                     /\ r.endpoint_type = "ACCOUNT"}

\* List-mode runs over the accounts of the local store.
ReplayOptions == {o \in Options : o.ids.none /\ o.type.none /\ o.account_ids.none
                                  /\ ~o.no_connect}

\* The command has ended and is invoked again: a new process, the same store.
Again ==
  /\ pc = "exit"
  /\ runs < MaxRuns
  /\ runs' = runs + 1
  /\ options' = NoOptions
  /\ pc' = "idle"
  /\ result' = "none"
  /\ listed_events' = NoListing
  /\ acct_idx' = 0
  /\ ev_idx' = 0
  /\ count' = 0
  /\ total' = 0
  /\ output' = <<>>
  /\ api_calls' = <<>>
  /\ dispatched' = <<>>
  /\ UNCHANGED <<webhookVars, store, synced, accounts>>

ReplayInit == Init /\ accounts = <<>>

ReplayNext ==
  \/ \E req \in ReplayRequests : post(req)
  \/ \E opts \in ReplayOptions : handle(opts)
  \/ NextAccount
  \/ \E raises \in BOOLEAN : ProcessEvent(raises)
  \/ Summary
  \/ Again

ReplaySpec == ReplayInit /\ [][ReplayNext]_vars

\* ===================================================================
\* Webhook claims (checked under WebhookSpec)
\* ===================================================================

Served == posts > 0
Created == Len(triggers) = Len(before) + 1 /\ SubSeq(triggers, 1, Len(before)) = before
LastTrigger == triggers[Len(triggers)]
SignedNonTest == Served /\ request.hasSig /\ ~is_test_event(request.body)

\* C1: a POST without the signature header is answered 400, whatever its
\* body, and leaves the trigger records exactly as they were.
C1_NoSignatureRejected ==
  (Served /\ ~request.hasSig) =>
    (response = HttpResponseBadRequest /\ triggers = before)

C1_Witness ==
  /\ Served /\ ~request.hasSig /\ is_test_event(request.body)
  /\ Len(triggers) = 1 /\ triggers = before
  /\ response.status = 400

\* C2: the number of trigger records equals the number of POSTs that carried
\* the signature header; each such POST adds exactly one record (valid,
\* invalid or test event) and no POST removes or rewrites an earlier record.
C2_OneTriggerPerSignedPost ==
  /\ Len(triggers) = signed_posts
  /\ Served =>
       /\ Len(before) <= Len(triggers)
       /\ SubSeq(triggers, 1, Len(before)) = before
       /\ Len(triggers) - Len(before) = (IF request.hasSig THEN 1 ELSE 0)

C2_Witness ==
  /\ posts = 2 /\ signed_posts = 2 /\ Len(triggers) = 2
  /\ triggers[1].is_test_event
  /\ ~triggers[2].is_test_event /\ ~triggers[2].valid

\* C3: a signed POST whose signature fails verification and which is not a
\* test event is answered 400 and its trigger record has valid = FALSE.
C3_InvalidSignatureRejected ==
  (SignedNonTest /\ ~request.sigOK) =>
    (response = HttpResponseBadRequest /\ Created /\ ~LastTrigger.valid
     /\ LastTrigger.body = request.body)

C3_Witness ==
  /\ SignedNonTest /\ ~request.sigOK
  /\ response.status = 400 /\ Created /\ ~LastTrigger.valid

\* C4: a POST whose trigger is flagged as a test event is answered 200 with
\* the fixed text, is_test_event is TRUE on the recorded trigger, and the
\* trigger's valid flag plays no part.
C4_TestEventAcknowledged ==
  (Served /\ request.hasSig /\ is_test_event(request.body)) =>
    (response = HttpResponse(TestAck) /\ Created /\ LastTrigger.is_test_event
     /\ LastTrigger.body = request.body)

C4_Witness ==
  /\ Served /\ Created /\ Len(triggers) = 2
  /\ triggers[1].is_test_event /\ triggers[1].valid
  /\ LastTrigger.is_test_event /\ ~LastTrigger.valid
  /\ response = HttpResponse(TestAck)

\* C5 as stated: every signed POST that verifies and is not a test event is
\* answered 200 with the identifier of the trigger created for it.
C5_Original ==
  (SignedNonTest /\ request.sigOK) =>
    (response.status = 200 /\ Created /\ response.body = str(LastTrigger.id))

\* C5 amended: such a POST creates one trigger; when processing the event
\* raises the request ends as a server error (500), otherwise the response
\* is 200 and its body is the identifier of the trigger created for this
\* request and of no trigger created by an earlier request.
C5_ValidAnswersOwnTriggerId ==
  (SignedNonTest /\ request.sigOK) =>
    /\ Created /\ LastTrigger.valid /\ LastTrigger.body = request.body
    /\ IF request.raises
       THEN response.status = 500 /\ LastTrigger.exception
       ELSE /\ response = HttpResponse(str(LastTrigger.id))
            /\ \A i \in 1..Len(before) : str(before[i].id) # response.body

C5_Witness ==
  /\ SignedNonTest /\ request.sigOK /\ ~request.raises
  /\ Len(before) = 1 /\ Created
  /\ response.status = 200 /\ response.body = <<"2">>

\* C6 as stated: a test payload sent without the signature header is
\* answered 200 with the fixed acknowledgement.
C6_Original ==
  (Served /\ ~request.hasSig /\ is_test_event(request.body)) =>
    response = HttpResponse(TestAck)

\* C6 amended: a test payload is acknowledged with 200 and the fixed text
\* only when the POST carries the signature header (whose verification result
\* is then ignored); without the header it is answered 400.
C6_TestPayloadNeedsHeader ==
  (Served /\ is_test_event(request.body)) =>
    response = (IF request.hasSig THEN HttpResponse(TestAck)
                ELSE HttpResponseBadRequest)

C6_Witness ==
  /\ Served /\ is_test_event(request.body)
  /\ request.hasSig /\ ~request.sigOK
  /\ response = HttpResponse(TestAck)

\* ===================================================================
\* Batch claims (checked under BatchSpec)
\* ===================================================================

Invoked == pc # "idle"
Finished == pc = "exit"
IdsGiven == ~options.ids.none /\ Len(options.ids.val) >= 1
\* The connected accounts the run targets: the explicit list, else (unless
\* connected-account sync is off) every account of the local store.
ExplicitAccounts == ~options.account_ids.none /\ options.account_ids.val # <<>>
Discovered == ~ExplicitAccounts /\ ~options.no_connect
TargetedCount ==
  IF ExplicitAccounts THEN Len(options.account_ids.val)
  ELSE IF Discovered THEN Len(accounts)
  ELSE 0
NoLocalMutation == store = EmptyStore /\ dispatched = <<>> /\ count = 0 /\ total = 0
Keys == [i \in 1..Len(listed_events.items) |-> listed_events.items[i].key]
KeySet == {Keys[i] : i \in 1..Len(Keys)}
ListedScopes == {api_calls[i].stripe_account :
                   i \in {j \in 1..Len(api_calls) : api_calls[j].op = "list"}}

\* C7: event IDs given and more than one connected account targeted (listed
\* or discovered): the command ends with the configuration error, having
\* issued no remote request, dispatched no event and changed no local state.
C7_IdsWithManyAccountsRejected ==
  (Invoked /\ IdsGiven /\ TargetedCount > 1) =>
    (Finished /\ result = "CommandError" /\ api_calls = <<>>
     /\ listed_events.kind = "none" /\ output = <<>> /\ NoLocalMutation)

C7_Witness ==
  /\ Invoked /\ IdsGiven /\ Discovered /\ Len(accounts) = 2
  /\ result = "CommandError" /\ api_calls = <<>>

\* C8: in By-ID mode with exactly one targeted connected account a finished
\* run has retrieved each listed ID, dispatched each retrieved event and
\* reported a summary whose total is the number of listed IDs.
C8_Original ==
  (Finished /\ IdsGiven /\ TargetedCount = 1) =>
    /\ result = "ok"
    /\ Len(api_calls) = Len(options.ids.val)
    /\ \A i \in 1..Len(api_calls) :
         api_calls[i].op = "retrieve" /\ api_calls[i].id = options.ids.val[i]
    /\ Len(dispatched) = Len(options.ids.val)
    /\ total = Len(options.ids.val)

\* C9: with --no-connect (and no explicit account list) the run hands the
\* runner a mapping whose only key is None, whatever the event selector.
C9_Original ==
  (Invoked /\ options.no_connect /\ options.account_ids.none) =>
    (result \in {"none", "ok"} /\ listed_events.kind = "dict" /\ Keys = <<None>>)

\* C10: no explicit account list, connected-account sync not disabled, list
\* mode: the mapping handed to the runner has one entry for the default
\* account (None) and one for every account of the local store, nothing else,
\* and one listing request was issued per entry.
C10_OneSequencePerKnownAccount ==
  (Invoked /\ options.account_ids.none /\ ~options.no_connect /\ ~Truthy(options.ids)) =>
    /\ listed_events.kind = "dict"
    /\ NoDup(Keys)
    /\ KeySet = {None} \cup {accounts[i] : i \in 1..Len(accounts)}
    /\ Len(Keys) = Len(accounts) + 1
    /\ Len(api_calls) = Len(Keys)
    /\ ListedScopes = KeySet
    /\ \A i \in 1..Len(api_calls) : api_calls[i].op = "list"

C10_Witness ==
  /\ Finished /\ result = "ok"
  /\ options.account_ids.none /\ ~options.no_connect /\ options.failed
  /\ Len(accounts) = 2
  /\ KeySet = {None, "acct_A", "acct_B"}

\* ===================================================================
\* Runner claims (checked under BatchSpec)
\* ===================================================================

\* The runner was handed a mapping.
Mapped == listed_events.kind = "dict"

RECURSIVE Flatten(_)
\* Every <<key, event id>> of a mapping, in iteration order.
Flatten(items) ==
  IF items = <<>> THEN <<>>
  ELSE [k \in 1..Len(Head(items).events) |->
          <<Head(items).key, Head(items).events[k].id>>]
       \o Flatten(Tail(items))

Expected == Flatten(listed_events.items)
DispatchedPairs == [i \in 1..Len(dispatched) |-> <<dispatched[i][1], dispatched[i][2]>>]
RaisedIds == [i \in 1..Len(SelectSeq(dispatched, LAMBDA d : d[3])) |->
                SelectSeq(dispatched, LAMBDA d : d[3])[i][2]]
IsFailureTrace(l) == l.level = "verbose" /\ l.msg[1] = "Failed processing Event"
FailureTraces == SelectSeq(output, IsFailureTrace)

\* C11: whatever dispatches raise, the runner dispatches every event of every
\* sequence of the mapping, in order; each raised failure leaves one failure
\* trace naming that event's id and neither the tenant's loop nor the batch
\* is cut short.
C11_FailuresDoNotAbort ==
  Mapped =>
    /\ result \in {"none", "ok"}
    /\ Len(dispatched) <= Len(Expected)
    /\ DispatchedPairs = SubSeq(Expected, 1, Len(dispatched))
    /\ Finished => Len(dispatched) = Len(Expected)
    /\ Len(FailureTraces) = Len(RaisedIds)
    /\ \A i \in 1..Len(RaisedIds) :
         FailureTraces[i].msg = <<"Failed processing Event", RaisedIds[i]>>

C11_Witness ==
  /\ Mapped /\ Finished /\ result = "ok"
  /\ Len(dispatched) = 5
  /\ dispatched[1][3] /\ dispatched[4][3] /\ ~dispatched[5][3]
  /\ dispatched[1][1] = None /\ dispatched[4][1] # None
  /\ Len(FailureTraces) = 2

Lengths == [i \in 1..Len(listed_events.items) |-> Len(listed_events.items[i].events)]

RECURSIVE SumSeq(_)
SumSeq(q) == IF q = <<>> THEN 0 ELSE Head(q) + SumSeq(Tail(q))

SummaryLine(c, t) ==
  Line("output", <<"Processed">> \o str(c) \o <<"out of">> \o str(t) \o <<"Events">>)

\* C12: when the runner finishes, total is the sum of the lengths of all
\* sequences of the mapping and count is total minus the number of dispatches
\* that raised; sequences of lengths 3, 0, 2 with one failure in the first
\* give count 4 and total 5.
C12_Accounting ==
  (Mapped /\ Finished) =>
    /\ total = SumSeq(Lengths)
    /\ count = total - Len(RaisedIds)
    /\ (Lengths = <<3, 0, 2>> /\ Len(RaisedIds) = 1
        /\ \E i \in 1..3 : dispatched[i][3])
       => (count = 4 /\ total = 5 /\ output[Len(output)] = SummaryLine(4, 5))

C12_Witness ==
  /\ Mapped /\ Finished
  /\ Lengths = <<3, 0, 2>>
  /\ Len(RaisedIds) = 1 /\ dispatched[2][3]
  /\ count = 4 /\ total = 5

\* process_events was called (with a mapping or with anything else).
RunnerReached == listed_events.kind # "none"
IsNoResults(l) == l = Line("output", <<"(no results)">>)
IsSummary(l) == l.level = "output" /\ l.msg[1] = "Processed"
IsTerminal(l) == IsNoResults(l) \/ IsSummary(l)

EndsWithTerminalLine ==
  /\ result = "ok"
  /\ Len(SelectSeq(output, IsTerminal)) = 1
  /\ IsTerminal(output[Len(output)])
  /\ IF total = 0
     THEN IsNoResults(output[Len(output)])
     ELSE output[Len(output)] = SummaryLine(count, total)

\* C13 as stated: every run that reaches the runner has, once it is over,
\* written exactly one terminal line as its last line: the "no results"
\* notice when total is 0, else the summary count.
C13_Original == (Finished /\ RunnerReached) => EndsWithTerminalLine

\* What the code does give: a run that hands the runner a mapping (list
\* mode) ends with exactly one terminal line.
TerminalLineInListMode == (Finished /\ Mapped) => EndsWithTerminalLine

\* The event ids dispatched so far under one key, in dispatch order.
DispatchedUnder(key) ==
  LET mine == SelectSeq(dispatched, LAMBDA d : d[1] = key)
  IN [i \in 1..Len(mine) |-> mine[i][2]]
IdsOf(events) == [k \in 1..Len(events) |-> events[k].id]

\* C14: dispatch is sequential and in listing order: under each tenant the
\* events dispatched so far are the first events its sequence yields, in
\* that order, each with its outcome (returned or raised) settled before the
\* next one is dispatched; only the tenant being processed can be part-way.
C14_SequentialInOrder ==
  Mapped =>
    /\ \A i \in 1..Len(listed_events.items) :
         LET item == listed_events.items[i]
             done == DispatchedUnder(item.key)
         IN /\ Len(done) <= Len(item.events)
            /\ done = SubSeq(IdsOf(item.events), 1, Len(done))
            /\ i < acct_idx => Len(done) = Len(item.events)
            /\ i > acct_idx => done = <<>>
    /\ total = Len(dispatched)
    /\ count + Len(RaisedIds) = Len(dispatched)
    /\ pc = "events" => Len(DispatchedUnder(CurrentItem.key)) = ev_idx - 1

C14_Witness ==
  /\ Mapped /\ pc = "accounts"
  /\ DispatchedUnder("acct_A") = <<"evt_4", "evt_5">>
  /\ DispatchedUnder(None) = <<"evt_1", "evt_2", "evt_3">>
  /\ dispatched[4] = <<"acct_A", "evt_4", TRUE>>
  /\ dispatched[5] = <<"acct_A", "evt_5", FALSE>>

\* C15: the runner takes the default account (key None) first and every
\* connected account after it: no event of a connected account is dispatched
\* before the last event of the default account's sequence.
C15_DefaultAccountFirst ==
  Mapped =>
    /\ Keys[1] = None
    /\ \A i \in 2..Len(Keys) : Keys[i] # None
    /\ \A i, j \in 1..Len(dispatched) :
         (i < j /\ dispatched[j][1] = None) => dispatched[i][1] = None
    /\ (\E i \in 1..Len(dispatched) : dispatched[i][1] # None)
         => DispatchedUnder(None) = IdsOf(listed_events.items[1].events)
    /\ acct_idx >= 1 => output[2] =
         Line("verbose", <<"Processing events for our own account.">>)

C15_Witness ==
  /\ Mapped /\ pc = "events" /\ Len(dispatched) = 4
  /\ dispatched[3][1] = None /\ dispatched[4][1] = "acct_A"
  /\ Keys = <<None, "acct_B", "acct_A">>

\* ===================================================================
\* Replay claim (checked under ReplaySpec)
\* ===================================================================

WebhookSynced(id) ==
  \E i \in 1..Len(triggers) :
    /\ triggers[i].body = id /\ ~triggers[i].is_test_event
    /\ triggers[i].valid /\ ~triggers[i].exception
BatchSynced(id) ==
  \E i \in 1..Len(dispatched) : dispatched[i][2] = id /\ ~dispatched[i][3]

ListRequests == SelectSeq(api_calls, LAMBDA c : c.op = "list")

\* C17: in list mode every listing request, for the default account and for
\* each tenant alike, carries the selected filter: delivery_success = FALSE
\* with --failed, the type pattern with a (non-empty) --type, no filter with
\* no selector; no request carries both filters.
C17_SameFilterForEveryScope ==
  /\ Mapped => (Len(ListRequests) >= Len(Keys)
                /\ {ListRequests[i].stripe_account : i \in 1..Len(ListRequests)} = KeySet)
  /\ \A i \in 1..Len(ListRequests) :
       LET kw == ListRequests[i].kwargs IN
       /\ options.failed =>
            (kw.has_delivery_success /\ kw.delivery_success = FALSE /\ ~kw.has_type)
       /\ Truthy(options.type) =>
            (kw.has_type /\ kw.type = options.type.val /\ ~kw.has_delivery_success)
       /\ (~options.failed /\ ~Truthy(options.type)) => kw = NoKwargs
       /\ ~(kw.has_delivery_success /\ kw.has_type)
  /\ Mapped =>
       \A i \in 1..Len(listed_events.items) :
         \A k \in 1..Len(listed_events.items[i].events) :
           LET e == listed_events.items[i].events[k] IN
           /\ options.failed => ~e.delivery_success
           /\ Truthy(options.type) => TypeMatches(e.type, options.type.val)

C17_Witness ==
  /\ Mapped /\ options.failed
  /\ Len(ListRequests) = 3
  /\ ListRequests[3].stripe_account = "acct_A"
  /\ ListRequests[3].kwargs.has_delivery_success
  /\ ~ListRequests[3].kwargs.delivery_success

\* ===================================================================
\* Tenant isolation (checked under BatchSpec)
\* ===================================================================

RemoteIds(scope) == {RemoteEvents(scope)[k].id : k \in 1..Len(RemoteEvents(scope))}

\* C18: every event is dispatched under the scope of the sequence it was
\* listed from: the scope passed to Event.process is the key of a sequence of
\* the mapping that holds the event, and the event is one of that scope's
\* events at the provider (None for the default account).
C18_DispatchedUnderOwnScope ==
  \A i \in 1..Len(dispatched) :
    LET scope == dispatched[i][1]
        id == dispatched[i][2]
    IN /\ \E j \in 1..Len(listed_events.items) :
            /\ listed_events.items[j].key = scope
            /\ \E k \in 1..Len(listed_events.items[j].events) :
                 listed_events.items[j].events[k].id = id
       /\ id \in RemoteIds(scope)
       /\ \A other \in (AccountIds \cup {None}) \ {scope} : id \notin RemoteIds(other)

C18_Witness ==
  /\ Len(dispatched) = 5
  /\ dispatched[1][1] = None /\ dispatched[1][2] = "evt_1"
  /\ dispatched[4][1] = "acct_A" /\ dispatched[4][2] = "evt_4"
  /\ dispatched[5][1] = "acct_A" /\ dispatched[5][2] = "evt_5"

\* ===================================================================
\* Selector claims (checked under BatchSpec)
\* ===================================================================

ExplicitSet == {options.account_ids.val[i] : i \in 1..Len(options.account_ids.val)}

\* C19: a mapping handed to the runner always holds the default account's
\* sequence under key None, listed with its own request; with an explicit
\* account list in list mode the mapping is that sequence plus one sequence
\* per listed account: the explicit list adds to it and never replaces it.
C19_DefaultAccountAlwaysListed ==
  /\ Mapped =>
       /\ None \in KeySet
       /\ \E i \in 1..Len(ListRequests) : ListRequests[i].stripe_account = None
       /\ listed_events.items[1] =
            [key |-> None, events |-> api_list(None, ListRequests[1].kwargs)]
  /\ (Invoked /\ ExplicitAccounts /\ ~Truthy(options.ids)) =>
       /\ Mapped
       /\ KeySet = {None} \cup ExplicitSet
       /\ Len(Keys) = 1 + Cardinality(ExplicitSet)

C19_Witness ==
  /\ Finished /\ result = "ok"
  /\ options.account_ids = Opt(<<"acct_A">>) /\ accounts = <<"acct_B">>
  /\ Keys = <<None, "acct_A">>
  /\ DispatchedUnder(None) = <<"evt_1", "evt_2", "evt_3">>

IdsEmpty == ~options.ids.none /\ options.ids.val = <<>>

\* The scopes a run targets: the default account and the targeted accounts.
TargetedScopes ==
  {None} \cup (IF ExplicitAccounts THEN ExplicitSet
               ELSE IF Discovered THEN {accounts[i] : i \in 1..Len(accounts)}
               ELSE {})

ProceedsUnfiltered ==
  /\ result \in {"none", "ok"}
  /\ Mapped
  /\ KeySet = TargetedScopes
  /\ api_calls = ListRequests
  /\ \A i \in 1..Len(api_calls) : api_calls[i].kwargs = NoKwargs
  /\ output[1] = Line("output", <<"Processing all available events">>)
  /\ Finished => total = Len(Expected)

\* C20 as stated: --ids with an empty list is treated as no selector: the
\* run proceeds in unfiltered list mode over all targeted scopes and the
\* configuration error is not raised, however many tenants are targeted.
C20_Original == (Invoked /\ IdsEmpty) => ProceedsUnfiltered

\* What the code does give: the same, for every tenant selector but
\* --no-connect.
EmptyIdsListModeWithConnect ==
  (Invoked /\ IdsEmpty /\ ~options.no_connect) => ProceedsUnfiltered

====
